---- MODULE Spec2Model ----
(***************************************************************************)
(* Model of the task store of cli-todolist (src/main.py, class TodoList).  *)
(* The state is the in-memory task list; every public method of the store  *)
(* is one action.  `last` records the most recent call: its name, its      *)
(* arguments, the list before the call and the messages it printed.        *)
(* `file` is tasks.json, `exports` the export files written so far, in     *)
(* order, and `pc` the position of the interactive shell (main).           *)
(***************************************************************************)
EXTENDS Integers, Sequences, FiniteSets, TLC

VARIABLES tasks, last, file, pc, exports

vars == <<tasks, last, file, pc, exports>>

\* ---------------------------------------------------------------- bounds
MaxTasks == 2      \* add_task is not called on a list of this length
MaxSortLen == 3    \* longest list handed to sort_tasks on its own
MaxSaveLen == 2    \* longest list saved, loaded back or exported on its own
MaxExports == 2    \* export files written by export_to_markdown on its own
MaxShellTasks == 1     \* the shell's Add is not chosen on a list of this length
MaxShellExports == 1   \* export files written in one run of the shell

\* --------------------------------------------------------- program data
\* keys of PRIORITY_COLORS
PRIORITY_COLORS == {"high", "medium", "low"}

\* None and the empty string are both falsy in `if name:` / `if priority:`;
\* the model writes either as the empty string.
None == ""

Names == {"A", "B"}
NameArgs == Names \cup {None}
PriorityArgs == PRIORITY_COLORS \cup {"bogus", None}
IdArgs == 1..(MaxTasks + 1)

\* readings of the wall clock (datetime.datetime.now()), in seconds
Clock == {0, 1}

\* the default of add_task's priority parameter
DefaultPriority == "medium"

\* ------------------------------------------------------------- sorting
\* priority_order.get(p, 999)
priority_order(p) ==
    CASE p = "high" -> 0
      [] p = "medium" -> 1
      [] p = "low" -> 2
      [] OTHER -> 999

\* the sort key (x["done"], rank) and Python's tuple order on it
\* (False < True, then the rank)
KeyLess(a, b) ==
    \/ (~a.done /\ b.done)
    \/ (a.done = b.done /\ priority_order(a.priority) < priority_order(b.priority))

\* list.sort is a stable insertion sort on lists this short: each element
\* is placed after every earlier element whose key is not greater.
\* variant: an element is placed before earlier elements of equal key
RECURSIVE InsertUnstable(_, _)
InsertUnstable(sorted, x) ==
    IF sorted = <<>> THEN <<x>>
    ELSE IF ~KeyLess(sorted[Len(sorted)], x)
         THEN Append(InsertUnstable(SubSeq(sorted, 1, Len(sorted) - 1), x),
                     sorted[Len(sorted)])
         ELSE Append(sorted, x)

RECURSIVE InsertStable(_, _)
InsertStable(sorted, x) ==
    IF sorted = <<>> THEN <<x>>
    ELSE IF KeyLess(x, sorted[Len(sorted)])
         THEN Append(InsertStable(SubSeq(sorted, 1, Len(sorted) - 1), x),
                     sorted[Len(sorted)])
         ELSE Append(sorted, x)

RECURSIVE SortPrefix(_, _)
SortPrefix(s, n) ==
    IF n = 0 THEN <<>> ELSE InsertStable(SortPrefix(s, n - 1), s[n])

sort_tasks(s) == SortPrefix(s, Len(s))

\* ------------------------------------------------------------- helpers
\* index of the first task with the id, 0 when there is none
\* (the `for task in self.tasks: if task["id"] == task_id` scans)
FirstIndex(s, id) ==
    IF \E i \in 1..Len(s) : s[i].id = id
    THEN CHOOSE i \in 1..Len(s) :
            s[i].id = id /\ \A j \in 1..(i - 1) : s[j].id # id
    ELSE 0

RemoveAt(s, i) == SubSeq(s, 1, i - 1) \o SubSeq(s, i + 1, Len(s))

\* message repeated n times
RECURSIVE Repeat(_, _)
Repeat(m, n) == IF n = 0 THEN <<>> ELSE Append(Repeat(m, n - 1), m)

\* datetime.now().strftime("%Y-%m-%d %H:%M:%S"): the clock second
strftime(t) == t

\* --------------------------------------------------------- tasks.json
\* The file: absent, or present with a text.  A text is JSON (`objects` are
\* its task objects, each field a JSON literal), text that is not JSON
\* ("malformed"), or bytes that do not decode as text ("undecodable").
NoFile == [exists |-> FALSE, text |-> [kind |-> "none", objects |-> <<>>]]

FileWith(text) == [exists |-> TRUE, text |-> text]

MalformedText == [kind |-> "malformed", objects |-> <<>>]
UndecodableText == [kind |-> "undecodable", objects |-> <<>>]

\* the strings a task field can hold
JsonStrings == Names \cup PriorityArgs \cup {ToString(t) : t \in Clock}

\* the integers a task field can hold
JsonInts == 0..(MaxTasks + MaxSortLen + 1)

\* json.dump of one value: an int as its digits, a bool as true / false, a
\* string between double quotes
EncodeInt(n) == ToString(n)
EncodeBool(b) == IF b THEN "true" ELSE "false"
EncodeStr(str) == "\"" \o str \o "\""

\* json.load of one literal: the parser tells the type from the literal
DecodeValue(lit) ==
    IF lit = "true" THEN TRUE
    ELSE IF lit = "false" THEN FALSE
    ELSE IF \E str \in JsonStrings : EncodeStr(str) = lit
         THEN CHOOSE str \in JsonStrings : EncodeStr(str) = lit
         ELSE CHOOSE n \in JsonInts : EncodeInt(n) = lit

\* created_at is the text strftime gave; the model holds the second it names
EncodeTask(x) ==
    [id |-> EncodeInt(x.id), name |-> EncodeStr(x.name),
     priority |-> EncodeStr(x.priority), done |-> EncodeBool(x.done),
     created_at |-> EncodeStr(ToString(x.created_at))]

DecodeTask(o) ==
    [id |-> DecodeValue(o.id), name |-> DecodeValue(o.name),
     priority |-> DecodeValue(o.priority), done |-> DecodeValue(o.done),
     created_at |-> LET str == DecodeValue(o.created_at)
                    IN CHOOSE t \in Clock : ToString(t) = str]

\* json.dump(self.tasks, f, indent=2)
json_dump(s) ==
    [kind |-> "json", objects |-> [k \in 1..Len(s) |-> EncodeTask(s[k])]]

\* json.load(f) of a JSON text
json_load(text) == [k \in 1..Len(text.objects) |-> DecodeTask(text.objects[k])]

\* variant: the list is sorted as it is loaded
load_tasks_sorted(s, f) ==
    IF f.exists
    THEN CASE f.text.kind = "json" ->
                [tasks |-> sort_tasks(json_load(f.text)), out |-> <<>>, raised |-> FALSE]
           [] f.text.kind = "malformed" ->
                [tasks |-> <<>>, out |-> <<"CorruptPersistedData">>, raised |-> FALSE]
           [] OTHER ->
                [tasks |-> s, out |-> <<"UnicodeDecodeError">>, raised |-> TRUE]
    ELSE [tasks |-> <<>>, out |-> <<>>, raised |-> FALSE]

\* load_tasks: result is [tasks, out, raised]; `s` is self.tasks before.
\* Reading undecodable bytes raises UnicodeDecodeError, which the
\* `except json.JSONDecodeError` does not catch.
load_tasks(s, f) ==
    IF f.exists
    THEN CASE f.text.kind = "json" ->
                [tasks |-> json_load(f.text), out |-> <<>>, raised |-> FALSE]
           [] f.text.kind = "malformed" ->
                [tasks |-> <<>>, out |-> <<"CorruptPersistedData">>, raised |-> FALSE]
           [] OTHER ->
                [tasks |-> s, out |-> <<"UnicodeDecodeError">>, raised |-> TRUE]
    ELSE [tasks |-> <<>>, out |-> <<>>, raised |-> FALSE]

\* save_tasks: the file written
save_tasks(s) == FileWith(json_dump(s))

\* ---------------------------------------------------------- operations
\* variant: the priority is not validated
add_task_unvalidated(s, name, priority, t) ==
    [tasks |-> sort_tasks(Append(s,
                  [id |-> Len(s) + 1, name |-> name, priority |-> priority,
                   done |-> FALSE, created_at |-> strftime(t)])),
     out |-> <<"Task added">>]

\* variant: the id is len(self.tasks), without the + 1
add_task_id_len(s, name, priority, t) ==
    IF priority \notin PRIORITY_COLORS
    THEN [tasks |-> s, out |-> <<"InvalidPriority">>]
    ELSE [tasks |-> sort_tasks(Append(s,
                       [id |-> Len(s), name |-> name, priority |-> priority,
                        done |-> FALSE, created_at |-> strftime(t)])),
          out |-> <<"Task added">>]

\* add_task: result is [tasks, out]
add_task(s, name, priority, t) ==
    IF priority \notin PRIORITY_COLORS
    THEN [tasks |-> s, out |-> <<"InvalidPriority">>]
    ELSE [tasks |-> sort_tasks(Append(s,
                       [id |-> Len(s) + 1, name |-> name, priority |-> priority,
                        done |-> FALSE, created_at |-> strftime(t)])),
          out |-> <<"Task added">>]

\* variant: the list is sorted again after the removal
delete_task_sorted(s, task_id) ==
    LET i == FirstIndex(s, task_id) IN
    IF i # 0
    THEN [tasks |-> sort_tasks(RemoveAt(s, i)),
          out |-> Append(Repeat("TaskNotFound", i - 1), "Deleted")]
    ELSE [tasks |-> s, out |-> Repeat("TaskNotFound", Len(s))]

\* delete_task: the not-found message is printed inside the loop, once for
\* every task scanned before a match (or for every task when none matches)
delete_task(s, task_id) ==
    LET i == FirstIndex(s, task_id) IN
    IF i # 0
    THEN [tasks |-> RemoveAt(s, i),
          out |-> Append(Repeat("TaskNotFound", i - 1), "Deleted")]
    ELSE [tasks |-> s, out |-> Repeat("TaskNotFound", Len(s))]

\* variant: the not-found message is printed inside the loop, as
\* delete_task prints it
update_task_report_in_loop(s, task_id, name, priority) ==
    LET i == FirstIndex(s, task_id) IN
    IF i = 0 THEN [tasks |-> s, out |-> Repeat("TaskNotFound", Len(s))]
    ELSE LET named == IF name # None THEN [s EXCEPT ![i].name = name] ELSE s IN
         IF priority # None
         THEN IF priority \in PRIORITY_COLORS
              THEN [tasks |-> sort_tasks([named EXCEPT ![i].priority = priority]),
                    out |-> <<"Updated">>]
              ELSE [tasks |-> named, out |-> <<"InvalidPriority">>]
         ELSE [tasks |-> sort_tasks(named), out |-> <<"Updated">>]

\* variant: the name is assigned without the `if name:` test
update_task_always_name(s, task_id, name, priority) ==
    LET i == FirstIndex(s, task_id) IN
    IF i = 0 THEN [tasks |-> s, out |-> <<"TaskNotFound">>]
    ELSE LET named == [s EXCEPT ![i].name = name] IN
         IF priority # None
         THEN IF priority \in PRIORITY_COLORS
              THEN [tasks |-> sort_tasks([named EXCEPT ![i].priority = priority]),
                    out |-> <<"Updated">>]
              ELSE [tasks |-> named, out |-> <<"InvalidPriority">>]
         ELSE [tasks |-> sort_tasks(named), out |-> <<"Updated">>]

\* update_task
update_task(s, task_id, name, priority) ==
    LET i == FirstIndex(s, task_id) IN
    IF i = 0 THEN [tasks |-> s, out |-> <<"TaskNotFound">>]
    ELSE LET named == IF name # None THEN [s EXCEPT ![i].name = name] ELSE s IN
         IF priority # None
         THEN IF priority \in PRIORITY_COLORS
              THEN [tasks |-> sort_tasks([named EXCEPT ![i].priority = priority]),
                    out |-> <<"Updated">>]
              ELSE [tasks |-> named, out |-> <<"InvalidPriority">>]
         ELSE [tasks |-> sort_tasks(named), out |-> <<"Updated">>]

\* variant: done is set to True instead of being negated
mark_done_set(s, task_id) ==
    LET i == FirstIndex(s, task_id) IN
    IF i = 0 THEN [tasks |-> s, out |-> <<"TaskNotFound">>]
    ELSE [tasks |-> sort_tasks([s EXCEPT ![i].done = TRUE]),
          out |-> <<"Marked">>]

\* variant: the list is not sorted again after the flip
mark_done_unsorted(s, task_id) ==
    LET i == FirstIndex(s, task_id) IN
    IF i = 0 THEN [tasks |-> s, out |-> <<"TaskNotFound">>]
    ELSE [tasks |-> [s EXCEPT ![i].done = ~s[i].done],
          out |-> <<"Marked">>]

\* mark_done
mark_done(s, task_id) ==
    LET i == FirstIndex(s, task_id) IN
    IF i = 0 THEN [tasks |-> s, out |-> <<"TaskNotFound">>]
    ELSE [tasks |-> sort_tasks([s EXCEPT ![i].done = ~s[i].done]),
          out |-> <<"Marked">>]

\* -------------------------------------------------------------- export
\* strftime('%Y%m%d_%H%M%S') and strftime("%Y-%m-%d %H:%M:%S") of a clock
\* reading: both name the second and nothing finer
FileStamp(t) == ToString(t)
LineStamp(t) == ToString(t)

\* f"todo_export_{...}.md"
ExportName(t) == "todo_export_" \o FileStamp(t) \o ".md"

\* f"[!{task['priority']}] " if task['priority'] in PRIORITY_COLORS else ""
priority_tag(x) ==
    IF x.priority \in PRIORITY_COLORS THEN "[!" \o x.priority \o "] " ELSE ""

\* checkbox = "- [ ] "
PendingLine(x) == "- [ ] " \o priority_tag(x) \o x.name

\* checkbox = ['- [x] ']: a list, which the f-string formats as its repr
CompletedLine(x) == "['- [x] ']" \o priority_tag(x) \o x.name

\* the lines the two `for task in self.tasks` loops write
RECURSIVE PendingLines(_)
PendingLines(s) ==
    IF s = <<>> THEN <<>>
    ELSE (IF ~Head(s).done THEN <<PendingLine(Head(s))>> ELSE <<>>)
         \o PendingLines(Tail(s))

RECURSIVE CompletedLines(_)
CompletedLines(s) ==
    IF s = <<>> THEN <<>>
    ELSE (IF Head(s).done THEN <<CompletedLine(Head(s))>> ELSE <<>>)
         \o CompletedLines(Tail(s))

\* the document, line by line; t2 is the clock reading of the second now()
ExportLines(s, t2) ==
    <<"# Todo List", "", "Exported on : " \o LineStamp(t2), "",
      "## Pending Tasks", "">>
    \o PendingLines(s)
    \o <<"", "## Completed Tasks", "">>
    \o CompletedLines(s)

\* variant: the `if not self.tasks` test is missing
export_always(s, t1, t2) ==
    [wrote |-> TRUE,
     written |-> [name |-> ExportName(t1), lines |-> ExportLines(s, t2)],
     out |-> <<"Tasks exported to " \o ExportName(t1)>>,
     ret |-> ExportName(t1)]

\* export_to_markdown: result is [wrote, written, out, ret]
export_to_markdown(s, t1, t2) ==
    IF s = <<>>
    THEN [wrote |-> FALSE, written |-> [name |-> None, lines |-> <<>>],
          out |-> <<"No tasks to export.">>, ret |-> None]
    ELSE [wrote |-> TRUE,
          written |-> [name |-> ExportName(t1), lines |-> ExportLines(s, t2)],
          out |-> <<"Tasks exported to " \o ExportName(t1)>>,
          ret |-> ExportName(t1)]

\* ------------------------------------------------------------- actions
\* `pre2` holds the list before the previous call when that call and this one
\* are both mark_done with the same id, or the list just saved when this
\* call is a load that follows a save, and is empty otherwise.
NoCall == [op |-> "init", args |-> <<>>, pre |-> <<>>, out |-> <<>>, pre2 |-> <<>>]

\* TodoList() with no tasks.json present: the empty store
Init ==
    /\ tasks = <<>>
    /\ last = NoCall
    /\ file = NoFile
    /\ pc = "store"
    /\ exports = <<>>

Call(op, args, r) ==
    /\ tasks' = r.tasks
    /\ last' = [op |-> op, args |-> args, pre |-> tasks, out |-> r.out,
                pre2 |-> IF op = "mark_done" /\ last.op = op /\ last.args = args
                         THEN <<last.pre>> ELSE <<>>]
    /\ UNCHANGED <<file, pc, exports>>

\* todo_list.add_task(name, priority)
Add ==
    /\ Len(tasks) < MaxTasks
    /\ \E name \in Names, priority \in PriorityArgs, t \in Clock :
          Call("add", <<name, priority>>, add_task(tasks, name, priority, t))

\* todo_list.add_task(name): the priority parameter takes its default
AddDefault ==
    /\ Len(tasks) < MaxTasks
    /\ \E name \in Names, t \in Clock :
          Call("add", <<name>>, add_task(tasks, name, DefaultPriority, t))

Delete ==
    \E id \in IdArgs : Call("delete", <<id>>, delete_task(tasks, id))

Update ==
    \E id \in IdArgs, name \in NameArgs, priority \in PriorityArgs :
        Call("update", <<id, name, priority>>, update_task(tasks, id, name, priority))

MarkDone ==
    \E id \in IdArgs : Call("mark_done", <<id>>, mark_done(tasks, id))

Next == Add \/ AddDefault \/ Delete \/ Update \/ MarkDone

Spec == Init /\ [][Next]_vars

\* ------------------------------------------- sort_tasks on its own
\* Any list a tasks.json may hold, as load_tasks reads it into self.tasks:
\* tasks in any order, ids repeated or not.
SortTasks ==
    [id : 1..MaxSortLen, name : {"A"}, priority : PRIORITY_COLORS,
     done : BOOLEAN, created_at : {0}]

SortInputs == UNION {[1..n -> SortTasks] : n \in 0..MaxSortLen}

InitSort ==
    /\ tasks \in SortInputs
    /\ last = NoCall
    /\ file = FileWith(json_dump(tasks))
    /\ pc = "store"
    /\ exports = <<>>

\* todo_list.sort_tasks()
Sort ==
    /\ last.op = "init"
    /\ Call("sort", <<>>, [tasks |-> sort_tasks(tasks), out |-> <<>>])

NextSort == Sort

SpecSort == InitSort /\ [][NextSort]_vars

\* ------------------------------------------ delete_task on a loaded list
\* todo_list.delete_task(id) on a list as load_tasks read it
DeleteLoaded ==
    /\ last.op = "init"
    /\ Delete

NextDelete == DeleteLoaded

SpecDelete == InitSort /\ [][NextDelete]_vars

\* ------------------------------------ save_tasks and load_tasks on their own
\* Collections a store can hold: built by the methods or read from a file
StoredTasks ==
    [id : 1..2, name : Names, priority : PRIORITY_COLORS,
     done : BOOLEAN, created_at : Clock]

StoredLists == UNION {[1..n -> StoredTasks] : n \in 0..MaxSaveLen}

InitPersist ==
    /\ tasks \in StoredLists
    /\ last = NoCall
    /\ file \in {NoFile, FileWith(MalformedText)}
    /\ pc = "store"
    /\ exports = <<>>

\* todo_list.save_tasks()
SaveTasks ==
    /\ file' = save_tasks(tasks)
    /\ last' = [op |-> "save", args |-> <<>>, pre |-> tasks,
                out |-> <<"Tasks saved">>, pre2 |-> <<>>]
    /\ UNCHANGED <<tasks, pc, exports>>

\* the list saved by the call just before, if that call was save_tasks
JustSaved == IF last.op = "save" THEN <<last.pre>> ELSE <<>>

\* todo_list.load_tasks() on the store that holds the list
LoadTasks ==
    LET r == load_tasks(tasks, file) IN
    /\ ~r.raised
    /\ tasks' = r.tasks
    /\ last' = [op |-> "load", args |-> <<"same">>, pre |-> tasks,
                out |-> r.out, pre2 |-> JustSaved]
    /\ UNCHANGED <<file, pc, exports>>

\* TodoList(): a fresh store, self.tasks = [] and then load_tasks()
Construct ==
    LET r == load_tasks(<<>>, file) IN
    /\ ~r.raised
    /\ tasks' = r.tasks
    /\ last' = [op |-> "load", args |-> <<"fresh">>, pre |-> <<>>,
                out |-> r.out, pre2 |-> JustSaved]
    /\ UNCHANGED <<file, pc, exports>>

NextPersist == SaveTasks \/ LoadTasks \/ Construct

SpecPersist == InitPersist /\ [][NextPersist]_vars

\* ------------------------------------------- export_to_markdown on its own
ExportTasks ==
    [id : {1}, name : Names, priority : PRIORITY_COLORS,
     done : BOOLEAN, created_at : {0}]

ExportInputs == UNION {[1..n -> ExportTasks] : n \in 0..MaxSaveLen}

InitExport ==
    /\ tasks \in ExportInputs
    /\ last = NoCall
    /\ file = FileWith(json_dump(tasks))
    /\ pc = "store"
    /\ exports = <<>>

\* the effect of one export_to_markdown call on the store and the directory
ExportCall(t1, t2) ==
    LET r == export_to_markdown(tasks, t1, t2) IN
    /\ exports' = IF r.wrote THEN Append(exports, r.written) ELSE exports
    /\ last' = [op |-> "export", args |-> <<>>, pre |-> tasks, out |-> r.out,
                pre2 |-> <<>>, ret |-> r.ret]
    /\ UNCHANGED <<tasks, file>>

\* todo_list.export_to_markdown()
Export ==
    /\ Len(exports) < MaxExports
    /\ \E t1, t2 \in Clock : ExportCall(t1, t2)
    /\ UNCHANGED pc

NextExport == Export

SpecExport == InitExport /\ [][NextExport]_vars

\* ------------------------------------------------- the interactive shell
\* Python values that main compares: a str and an int are never equal, so
\* each carries its type
PyStr(text) == "str:" \o text
PyInt(n) == "int:" \o ToString(n)

\* priority_map, keyed by the strings '1', '2', '3'
priority_map ==
    [k \in {PyStr("1"), PyStr("2"), PyStr("3")} |->
        CASE k = PyStr("1") -> "high"
          [] k = PyStr("2") -> "medium"
          [] OTHER -> "low"]

\* priority_map.get(key)
priority_map_get(key) ==
    IF key \in DOMAIN priority_map THEN priority_map[key] ELSE None

\* what is typed at the priority and task-number prompts
PriorityTexts == {"1", "2", "3", "x"}
IdTexts == {ToString(n) : n \in 1..(MaxShellTasks + 1)} \cup {"x"}
\* the first priority answer of the Update flow, which is only parsed
FirstPriorityTexts == {"1", "x"}

\* int(text) succeeds on digits and raises ValueError otherwise
IsNumeric(text) == \E n \in JsonInts : ToString(n) = text
int(text) == CHOOSE n \in JsonInts : ToString(n) = text

\* tasks.json when the program starts
StartTasks ==
    [id : {1}, name : {"A"}, priority : {"high"},
     done : BOOLEAN, created_at : {0}]

StartFiles ==
    {NoFile, FileWith(MalformedText), FileWith(UndecodableText)}
    \cup {FileWith(json_dump(<<x>>)) : x \in StartTasks}

InitShell ==
    /\ tasks = <<>>
    /\ last = NoCall
    /\ file \in StartFiles
    /\ pc = "boot"
    /\ exports = <<>>

\* the record of one menu choice: the store call made (if any) and what was
\* typed at the prompts
Flow(op, args, r, typed) ==
    /\ tasks' = r.tasks
    /\ last' = [op |-> op, args |-> args, pre |-> tasks, out |-> r.out,
                pre2 |-> <<>>, typed |-> typed]

\* an exception that nothing catches ends the process
Crash(op, typed, exception) ==
    /\ pc' = "crashed"
    /\ last' = [op |-> op, args |-> <<>>, pre |-> tasks, out |-> <<exception>>,
                pre2 |-> <<>>, typed |-> typed]
    /\ UNCHANGED <<tasks, file, exports>>

\* a ValueError caught by the flow's `except ValueError`
Rejected(op, typed) ==
    /\ Flow(op, <<>>, [tasks |-> tasks, out |-> <<"Please enter a valid task number.">>],
            typed)
    /\ UNCHANGED <<file, pc, exports>>

\* todo_list = TodoList(): an exception in load_tasks ends main before the loop
Boot ==
    /\ pc = "boot"
    /\ LET r == load_tasks(<<>>, file) IN
          /\ tasks' = r.tasks
          /\ last' = [op |-> "load", args |-> <<"fresh">>, pre |-> <<>>,
                      out |-> r.out, pre2 |-> <<>>]
          /\ pc' = IF r.raised THEN "failed" ELSE "menu"
    /\ UNCHANGED <<file, exports>>

\* choice '1': the int() of the priority is outside any try
ShellAdd ==
    /\ pc = "menu"
    /\ Len(tasks) < MaxShellTasks
    /\ \E name \in Names, text \in PriorityTexts, t \in Clock :
          IF ~IsNumeric(text)
          THEN Crash("add", <<name, text>>, "ValueError")
          ELSE LET found == priority_map_get(PyInt(int(text)))
                   priority == IF found = None THEN "medium" ELSE found
               IN  /\ Flow("add", <<name, priority>>,
                           add_task(tasks, name, priority, t), <<name, text>>)
                   /\ UNCHANGED <<file, pc, exports>>

\* choice '2'
ShellMark ==
    /\ pc = "menu"
    /\ \E text \in IdTexts :
          IF ~IsNumeric(text)
          THEN Rejected("mark_done", <<text>>)
          ELSE /\ Flow("mark_done", <<int(text)>>, mark_done(tasks, int(text)), <<text>>)
               /\ UNCHANGED <<file, pc, exports>>

\* list_tasks: one row per task, or the no-tasks message
list_tasks(s) ==
    IF s = <<>> THEN <<"No tasks found.">>
    ELSE [k \in 1..Len(s) |->
            ToString(s[k].id) \o (IF s[k].done THEN " done " ELSE " open ")
            \o s[k].name \o " " \o s[k].priority]

\* choice '3'
ShellList ==
    /\ pc = "menu"
    /\ Flow("list", <<>>, [tasks |-> tasks, out |-> list_tasks(tasks)], <<>>)
    /\ UNCHANGED <<file, pc, exports>>

\* choice '4'
ShellDelete ==
    /\ pc = "menu"
    /\ \E text \in IdTexts :
          IF ~IsNumeric(text)
          THEN Rejected("delete", <<text>>)
          ELSE /\ Flow("delete", <<int(text)>>, delete_task(tasks, int(text)), <<text>>)
               /\ UNCHANGED <<file, pc, exports>>

\* choice '5': the priority is asked for twice and the second answer is
\* looked up
ShellUpdate ==
    /\ pc = "menu"
    /\ \E idtext \in IdTexts, name \in NameArgs,
          text1 \in FirstPriorityTexts, text2 \in PriorityTexts :
          IF ~IsNumeric(idtext) \/ ~IsNumeric(text1) \/ ~IsNumeric(text2)
          THEN Rejected("update", <<idtext, name, text1, text2>>)
          ELSE LET priority == priority_map_get(PyInt(int(text2)))
               IN  /\ Flow("update", <<int(idtext), name, priority>>,
                           update_task(tasks, int(idtext), name, priority),
                           <<idtext, name, text1, text2>>)
                   /\ UNCHANGED <<file, pc, exports>>

\* choice '6'
ShellExport ==
    /\ pc = "menu"
    /\ Len(exports) < MaxShellExports
    /\ \E t1, t2 \in Clock : ExportCall(t1, t2)
    /\ UNCHANGED pc

\* variant: the loop is left without the save
ShellExitUnsaved ==
    /\ pc = "menu"
    /\ pc' = "exited"
    /\ last' = [op |-> "save", args |-> <<>>, pre |-> tasks,
                out |-> <<"Goodbye!">>, pre2 |-> <<>>]
    /\ UNCHANGED <<tasks, file, exports>>

\* choice '7': save_tasks, then break
ShellExit ==
    /\ pc = "menu"
    /\ file' = save_tasks(tasks)
    /\ pc' = "exited"
    /\ last' = [op |-> "save", args |-> <<>>, pre |-> tasks,
                out |-> <<"Tasks saved", "Goodbye!">>, pre2 |-> <<>>]
    /\ UNCHANGED <<tasks, exports>>

\* any other choice
ShellInvalid ==
    /\ pc = "menu"
    /\ \E choice \in {"8", ""} :
          Flow("menu", <<>>, [tasks |-> tasks, out |-> <<"Invalid option. Please try again">>],
               <<choice>>)
    /\ UNCHANGED <<file, pc, exports>>

NextShell ==
    \/ Boot \/ ShellAdd \/ ShellMark \/ ShellList \/ ShellDelete
    \/ ShellUpdate \/ ShellExport \/ ShellExit \/ ShellInvalid

SpecShell == InitShell /\ [][NextShell]_vars

\* ------------------------------------------------ shared predicates
\* number of occurrences of message m in the printed output
Count(out, m) == Cardinality({k \in 1..Len(out) : out[k] = m})

\* number of positions of s that hold the record x
Occurrences(s, x) == Cardinality({k \in 1..Len(s) : s[k] = x})

Range(s) == {s[k] : k \in 1..Len(s)}

\* s and t hold the same tasks, each as many times
IsPerm(s, t) ==
    /\ Len(s) = Len(t)
    /\ \A x \in Range(s) \cup Range(t) : Occurrences(s, x) = Occurrences(t, x)

\* the id argument of the last delete / update / mark_done call
LastId == last.args[1]

Present(s, id) == FirstIndex(s, id) # 0

\* Ordered by the sort rule: pending before completed, and the priority
\* rank non-decreasing among tasks of equal done
Ordered(s) ==
    \A i, j \in 1..Len(s) :
        i < j =>
            /\ ~(s[i].done /\ ~s[j].done)
            /\ (s[i].done = s[j].done =>
                    priority_order(s[i].priority) <= priority_order(s[j].priority))

\* ----------------------------------------------------------------- C1
\* C1: from an empty store, after any sequence of add, delete, update and
\* mark_done calls no two tasks in the collection share the same id.
\* The code breaks this: the id is len(tasks) + 1, so an add after a delete
\* mints an id that a remaining task already has.
C1_UniqueIds ==
    \A i, j \in 1..Len(tasks) : i # j => tasks[i].id # tasks[j].id

\* ----------------------------------------------------------------- C2
\* C2: update(id, name=X, priority=P) on an existing task with P non-null and
\* outside {high, medium, low} reports InvalidPriority and leaves the task
\* wholly unchanged (name, priority, done, id, created_at).
\* The code breaks this: the name is assigned before the priority is checked.
C2_AtomicUpdate ==
    (/\ last.op = "update"
     /\ Present(last.pre, LastId)
     /\ last.args[3] # None
     /\ last.args[3] \notin PRIORITY_COLORS)
    => (/\ last.out = <<"InvalidPriority">>
        /\ tasks = last.pre)

\* ----------------------------------------------------------------- C4
\* C4: from an empty store, after every add, update, mark_done or delete,
\* successful or failed, the collection is ordered by the sort rule: every
\* pending task precedes every completed task and among tasks of equal done
\* the priority rank is non-decreasing.
C4_AlwaysOrdered == Ordered(tasks)

\* A mark_done moved a high-priority task behind a low-priority pending one.
C4_Witness ==
    /\ last.op = "mark_done"
    /\ Len(tasks) = 2
    /\ ~tasks[1].done /\ tasks[1].priority = "low"
    /\ tasks[2].done /\ tasks[2].priority = "high"
    /\ last.pre[1].priority = "high"

\* ----------------------------------------------------------------- C5
\* C5: delete(id) reports TaskNotFound if and only if no task has the id, and
\* then exactly once; a delete of an absent id leaves the collection
\* unchanged, a delete of a present id yields no not-found report.
\* The code breaks this: the report is printed inside the scan loop, once per
\* task passed over, so an empty store reports nothing and a later match is
\* preceded by reports.
C5_DeleteNotFoundOnce ==
    last.op = "delete" =>
        IF Present(last.pre, LastId)
        THEN Count(last.out, "TaskNotFound") = 0
        ELSE Count(last.out, "TaskNotFound") = 1 /\ tasks = last.pre

\* ----------------------------------------------------------------- C6
\* C6: update and mark_done on an id no task has report TaskNotFound exactly
\* once, for a collection of any size including empty, and leave every
\* task's fields and the collection's order unchanged.
C6_NotFoundOnce ==
    (last.op \in {"update", "mark_done"} /\ ~Present(last.pre, LastId))
    => (last.out = <<"TaskNotFound">> /\ tasks = last.pre)

\* mark_done of an absent id on a store of two tasks
C6_Witness ==
    /\ last.op = "mark_done"
    /\ Len(last.pre) = 2
    /\ ~Present(last.pre, LastId)
    /\ Count(last.out, "TaskNotFound") = 1

\* ----------------------------------------------------------------- C8
\* C8: from an empty store, after any sequence of add and update calls with
\* valid or invalid priority arguments, interleaved with delete and
\* mark_done, every task has a priority in {high, medium, low}; an add with
\* a priority outside that set creates no task.
C8_PriorityValid ==
    /\ \A i \in 1..Len(tasks) : tasks[i].priority \in PRIORITY_COLORS
    /\ (last.op = "add" /\ Len(last.args) = 2 /\ last.args[2] \notin PRIORITY_COLORS)
       => (tasks = last.pre /\ last.out = <<"InvalidPriority">>)

\* an update with an unknown priority was refused on an existing task
C8_Witness ==
    /\ last.op = "update"
    /\ Present(last.pre, LastId)
    /\ last.args[3] = "bogus"
    /\ Len(tasks) = 2

\* ----------------------------------------------------------------- C3
\* two mark_done calls in a row with the same id, the id present
ToggledTwice ==
    /\ last.op = "mark_done"
    /\ last.pre2 # <<>>
    /\ Present(last.pre, LastId)

SameKey(a, b) == a.done = b.done /\ a.priority = b.priority

Holders(s, id) == {k \in 1..Len(s) : s[k].id = id}

\* C3 as stated: calling mark_done(id) twice in a row returns the task to
\* its original done value and to its position among the tasks with the
\* same (done, priority) key, so the collection's order after the two
\* calls equals the order before them.
C3_ToggleTwiceRestoresOrder ==
    ToggledTwice => tasks = last.pre2[1]

\* C3 as amended: in a store built from empty, two mark_done(id) calls in a
\* row each flip the first task in sequence that has the id.  When one task
\* has the id it regains its original done value, every task keeps its
\* fields and the other tasks keep their order, but the task itself is placed
\* after the other tasks with its sort key when it is pending and before
\* them when it is completed.  When several tasks have the id the two calls
\* either flip the same task, with the same outcome, or flip two of them
\* once each.
C3_ToggleTwice ==
    ToggledTwice =>
        LET before == last.pre2[1]
            i == FirstIndex(before, LastId)
            t == before[i]
            Restored ==
                \E j \in 1..Len(tasks) :
                    /\ tasks[j] = t
                    /\ RemoveAt(tasks, j) = RemoveAt(before, i)
                    /\ \A k \in 1..Len(tasks) :
                          (k # j /\ SameKey(tasks[k], t)) =>
                              IF t.done THEN k > j ELSE k < j
            TwoFlipped ==
                \E a, b \in Holders(before, LastId) :
                    /\ a # b
                    /\ IsPerm(tasks, [before EXCEPT ![a].done = ~before[a].done,
                                                    ![b].done = ~before[b].done])
        IN  IF Cardinality(Holders(before, LastId)) = 1
            THEN Restored
            ELSE Restored \/ TwoFlipped

\* a pending task toggled twice ends behind a task of its key that it
\* preceded before
C3_Witness ==
    /\ ToggledTwice
    /\ Cardinality(Holders(last.pre2[1], LastId)) = 1
    /\ Len(tasks) = 2
    /\ SameKey(tasks[1], tasks[2])
    /\ tasks[2] = last.pre2[1][1]
    /\ tasks[1] = last.pre2[1][2]
    /\ tasks[1] # tasks[2]

\* two tasks share the id and each was flipped once
C3_WitnessShared ==
    /\ ToggledTwice
    /\ Cardinality(Holders(last.pre2[1], LastId)) = 2
    /\ \A k \in 1..Len(tasks) : tasks[k].done
    /\ \A k \in 1..Len(tasks) : ~last.pre2[1][k].done

\* ----------------------------------------------------------------- C7
\* the tasks of s that have the sort key of x, in their order in s
WithKey(s, x) == LET Same(y) == SameKey(y, x) IN SelectSeq(s, Same)

\* C7: sort_tasks applied to any collection yields a permutation of it in
\* which every pending task precedes every completed task, among tasks of
\* equal done a lower priority rank comes first, and tasks with an equal
\* (done, priority) key keep the relative order they had before the sort.
C7_SortCorrect ==
    last.op = "sort" =>
        /\ IsPerm(tasks, last.pre)
        /\ Ordered(tasks)
        /\ \A x \in Range(last.pre) : WithKey(tasks, x) = WithKey(last.pre, x)

\* a list of three that the sort reorders while two distinguishable tasks of
\* one key keep their order
C7_Witness ==
    /\ last.op = "sort"
    /\ Len(tasks) = 3
    /\ tasks # last.pre
    /\ \E i, j \in 1..3 :
          /\ i < j
          /\ SameKey(tasks[i], tasks[j])
          /\ tasks[i] # tasks[j]
          /\ last.pre[1] = tasks[3]

\* ----------------------------------------------------------------- C9
UpdateSucceeded == last.op = "update" /\ last.out = <<"Updated">>

\* C9: a successful update(id, name, priority) changes only the fields that
\* were provided: the name is unchanged when no name is given, the priority
\* is unchanged when no priority is given, the task's id, done and
\* created_at are never changed, and no other task's fields are changed.
C9_UpdateFrame ==
    UpdateSucceeded =>
        LET i == FirstIndex(last.pre, LastId)
            old == last.pre[i]
        IN  \E j \in 1..Len(tasks) :
                /\ tasks[j].id = old.id
                /\ tasks[j].done = old.done
                /\ tasks[j].created_at = old.created_at
                /\ (last.args[2] = None => tasks[j].name = old.name)
                /\ (last.args[3] = None => tasks[j].priority = old.priority)
                /\ IsPerm(RemoveAt(tasks, j), RemoveAt(last.pre, i))

\* an update that gave a priority and no name moved the task and kept its name
C9_Witness ==
    /\ UpdateSucceeded
    /\ last.args[2] = None
    /\ last.args[3] = "low"
    /\ Len(tasks) = 2
    /\ last.pre[1].id = LastId
    /\ last.pre[1].priority = "high"
    /\ tasks[2].id = LastId
    /\ tasks[2].name = last.pre[1].name
    /\ tasks[2].created_at = 1
    /\ tasks[1].id # LastId

\* ---------------------------------------------------------------- C10
AddSucceeded == last.op = "add" /\ last.out = <<"Task added">>

\* C10: every successful add gives the new task an id equal to the number of
\* tasks in the collection just before the add plus one, with done=false and
\* with priority medium when no priority is supplied, and grows the
\* collection by exactly that one task.
C10_AddResult ==
    AddSucceeded =>
        /\ Len(tasks) = Len(last.pre) + 1
        /\ \E j \in 1..Len(tasks) :
              /\ tasks[j].id = Len(last.pre) + 1
              /\ tasks[j].name = last.args[1]
              /\ ~tasks[j].done
              /\ (Len(last.args) = 1 => tasks[j].priority = "medium")
              /\ (Len(last.args) = 2 => tasks[j].priority = last.args[2])
              /\ RemoveAt(tasks, j) = last.pre

\* an add without a priority, made after a delete, on a store holding one task
C10_Witness ==
    /\ AddSucceeded
    /\ Len(last.args) = 1
    /\ Len(last.pre) = 1
    /\ last.pre[1].id = 2
    /\ \E j \in 1..Len(tasks) :
          tasks[j].id = 2 /\ tasks[j].priority = "medium" /\ tasks[j].name = last.args[1]

\* ---------------------------------------------------------------- C12
\* a load made right after a save
LoadedAfterSave == last.op = "load" /\ last.pre2 # <<>>

\* C12: for any task collection the store can hold, save followed by load,
\* into the same or a fresh store, yields a collection equal to the original
\* in every field (id, name, priority, done, created_at) and in order.
C12_RoundTrip ==
    LoadedAfterSave => (tasks = last.pre2[1] /\ last.out = <<>>)

\* a fresh store loaded a saved list of two that is not in sort order
C12_Witness ==
    /\ LoadedAfterSave
    /\ last.args = <<"fresh">>
    /\ Len(tasks) = 2
    /\ tasks[1].done /\ ~tasks[2].done
    /\ tasks[1].id = 2 /\ tasks[1].created_at = 1
    /\ tasks[2].name = "B" /\ tasks[2].priority = "low"

\* ---------------------------------------------------------------- C14
\* position of a line in a document, 0 when it is not there
LineIndex(lines, l) ==
    IF \E k \in 1..Len(lines) : lines[k] = l
    THEN CHOOSE k \in 1..Len(lines) : lines[k] = l
    ELSE 0

\* the lines of the Pending Tasks and of the Completed Tasks section
PendingSection(lines) ==
    {lines[k] : k \in {n \in 1..Len(lines) :
        /\ n > LineIndex(lines, "## Pending Tasks")
        /\ n < LineIndex(lines, "## Completed Tasks")}}

CompletedSection(lines) ==
    {lines[k] : k \in {n \in 1..Len(lines) :
        n > LineIndex(lines, "## Completed Tasks")}}

\* the export file the last call wrote
LastExport == exports[Len(exports)]

Exported == last.op = "export" /\ last.ret # None

\* C14: in the exported document every task with done=true appears in the
\* Completed Tasks section as a line of exactly the form
\* `- [x] [!<priority>] <name>`, and every task with done=false appears in
\* the Pending Tasks section as `- [ ] [!<priority>] <name>`.
\* The code breaks this: the completed checkbox is a list, so the line
\* starts with the list's repr ['- [x] '].
C14_ChecklistLines ==
    Exported =>
        \A k \in 1..Len(tasks) :
            IF tasks[k].done
            THEN ("- [x] [!" \o tasks[k].priority \o "] " \o tasks[k].name)
                    \in CompletedSection(LastExport.lines)
            ELSE ("- [ ] [!" \o tasks[k].priority \o "] " \o tasks[k].name)
                    \in PendingSection(LastExport.lines)

\* ---------------------------------------------------------------- C15
\* C15: any two exports of a non-empty collection performed during a run, at
\* any times, including within the same clock second, write to distinct
\* filenames, so no export overwrites the file written by an earlier export.
\* The code breaks this: the filename carries the time to the second only.
C15_DistinctExportNames ==
    \A i, j \in 1..Len(exports) :
        i # j => exports[i].name # exports[j].name

\* ---------------------------------------------------------------- C17
\* C17: export on an empty collection writes no file and returns no
\* filename; export on any collection, empty or not, leaves the store's
\* collection (fields and order) unchanged.
C17_ExportFrame ==
    [][(last'.op = "export" /\ last' # last) =>
          /\ tasks' = tasks
          /\ (tasks = <<>> =>
                (exports' = exports /\ last'.ret = None
                 /\ last'.out = <<"No tasks to export.">>))]_vars

\* an export of the empty collection returned nothing and wrote nothing
C17_Witness ==
    /\ last.op = "export"
    /\ tasks = <<>>
    /\ last.ret = None
    /\ exports = <<>>

\* an export of two tasks wrote a file and left the two tasks as they were
C17_WitnessWritten ==
    /\ Exported
    /\ Len(tasks) = 2
    /\ tasks = last.pre
    /\ Len(exports) = 1

\* ---------------------------------------------------------------- C18
DeletedPresent == last.op = "delete" /\ Present(last.pre, LastId)

\* C18: delete(id) with a present id removes exactly one task, the first in
\* sequence order that has that id when several do, and leaves every
\* remaining task's fields and the relative order of the remaining tasks
\* unchanged, without re-sorting.
C18_DeleteFrame ==
    DeletedPresent =>
        \E i \in 1..Len(last.pre) :
            /\ last.pre[i].id = LastId
            /\ \A k \in 1..(i - 1) : last.pre[k].id # LastId
            /\ Len(tasks) = Len(last.pre) - 1
            /\ \A k \in 1..Len(tasks) :
                  tasks[k] = IF k < i THEN last.pre[k] ELSE last.pre[k + 1]

\* of two tasks with the id the first went, and what remains is out of sort
\* order as it was before
C18_Witness ==
    /\ DeletedPresent
    /\ Len(last.pre) = 3
    /\ last.pre[1].id = LastId
    /\ last.pre[3].id = LastId
    /\ last.pre[1] # last.pre[3]
    /\ tasks = <<last.pre[2], last.pre[3]>>
    /\ ~Ordered(tasks)

\* ---------------------------------------------------------------- C11
\* C11: whenever the shell terminates through the Exit menu option, save has
\* run before termination, so the persisted file's content at termination
\* equals the store's collection (all fields, same order) as it was when
\* Exit was chosen.
C11_ExitSaves ==
    pc = "exited" =>
        /\ last.op = "save"
        /\ tasks = last.pre
        /\ file.exists
        /\ file.text.kind = "json"
        /\ json_load(file.text) = last.pre

\* Exit was chosen on a store holding a completed task added in this run
C11_Witness ==
    /\ pc = "exited"
    /\ Len(tasks) = 1
    /\ tasks[1].done
    /\ tasks[1].priority = "medium"
    /\ tasks[1].name = "B"
    /\ file = FileWith(json_dump(tasks))

\* ---------------------------------------------------------------- C13
\* the constructor's load_tasks has run
Loaded == last.op = "load" /\ pc # "boot"

\* C13: load on a missing file yields an empty collection without reporting
\* an error; load on an existing file whose content cannot be parsed reports
\* the corruption, yields an empty collection, and leaves the file's content
\* unchanged in every later state until save is invoked.
\* The code breaks this for a file whose bytes do not decode as text:
\* json.load raises UnicodeDecodeError, the except clause names only
\* json.JSONDecodeError, and the constructor ends with the exception instead
\* of a report and an empty collection.  (`file` is as it was at the start in
\* every state with last.op = "load": only save_tasks assigns it.)
C13_LoadRecovers ==
    Loaded =>
        /\ ~file.exists => (tasks = <<>> /\ last.out = <<>> /\ pc = "menu")
        /\ (file.exists /\ file.text.kind # "json") =>
              (/\ tasks = <<>>
               /\ last.out = <<"CorruptPersistedData">>
               /\ pc = "menu")

\* ---------------------------------------------------------------- C16
Selection == {"1", "2", "3"}

Selected(text) ==
    CASE text = "1" -> "high"
      [] text = "2" -> "medium"
      [] OTHER -> "low"

\* C16: in the shell's Add and Update flows the numeric priority selection
\* 1, 2 or 3 entered by the user reaches the store as priority high, medium
\* or low respectively.
\* The code breaks this: priority_map is keyed by the strings '1', '2', '3'
\* and is looked up with the int, so the lookup always gives None; Add then
\* falls back to medium and Update passes no priority.
C16_SelectionReachesStore ==
    /\ (pc = "menu" /\ last.op = "add" /\ last.typed[2] \in Selection)
          => last.args[2] = Selected(last.typed[2])
    /\ (pc = "menu" /\ last.op = "update" /\ last.args # <<>>
        /\ last.typed[4] \in Selection)
          => last.args[3] = Selected(last.typed[4])

\* ---------------------------------------------------------------- C19
\* C19: the shell's menu loop ends only through the Exit option: every other
\* input sequence, including an unknown menu choice and non-numeric text
\* typed at a task-id or priority prompt in the Add, Mark, Delete or Update
\* flows, returns control to the menu with the process still running, so the
\* process never terminates without having saved the collection.
\* The code breaks this: in the Add flow int(input(...)) stands outside any
\* try, so non-numeric text at the priority prompt ends the process with a
\* ValueError and nothing is saved.
C19_OnlyExitEnds ==
    /\ pc # "crashed"
    /\ pc = "exited" => (last.op = "save" /\ file = FileWith(json_dump(tasks)))

====
